---- MODULE Spec2Model ----
(***************************************************************************)
(* Tutor: gesture-controlled desktop with a face-based security latch.     *)
(*                                                                         *)
(* The model follows the frame loop of main.py and the objects it drives:  *)
(* HandTracker (stabilizer), GestureMapper (dispatcher), DesktopActions,   *)
(* FacePresenceDetector, FaceRecognizer and SecurityState.                 *)
(*                                                                         *)
(* Time is counted in ticks of 0.1 s.  Every call of time.time() is a read *)
(* of a non-decreasing clock; the clock may advance by any amount of Steps *)
(* between two reads.                                                      *)
(***************************************************************************)
EXTENDS Integers, Sequences, FiniteSets, TLC

VARIABLES
    now,                  \* the wall clock, value of the latest time.time() read
    pc,                   \* position of the frame loop of main()
    gesture,              \* main(): local `gesture`; argument of the last handle call
    face_absent,          \* main(): local `face_absent`
    identity,             \* main(): local `identity`
    gesture_buffer,       \* HandTracker.gesture_buffer (deque, maxlen hold_frames)
    last_stable_gesture,  \* HandTracker.last_stable_gesture
    last_emit_time,       \* HandTracker.last_emit_time
    prev_gesture,         \* GestureMapper.prev_gesture
    last_action_time,     \* GestureMapper.last_action_time
    control_enabled,      \* DesktopActions.control_enabled
    last_action,          \* DesktopActions.last_action
    last_seen_time,       \* FacePresenceDetector.last_seen_time
    face_present,         \* FacePresenceDetector.face_present
    reference_embedding,  \* FaceRecognizer.reference_embedding is not None
    blur_start_time,      \* SecurityState.blur_start_time (None is NoTime)
    lock_triggered,       \* SecurityState.lock_triggered
    blur_strength,        \* SecurityState.blur_strength
    effect,               \* observer: side effect made by the last handle call
    calls,                \* observer: number of calls of each DesktopActions method
    run_effects,          \* observer: side effects in the current run of equal labels
    last_dispatched,      \* observer: label of the last call that made a side effect
    last_label,           \* observer: label of the last handle call
    lock_calls,           \* observer: number of calls of lock_screen()
    absent_since,         \* observer: onset of the current run of face-absent passes
    pass_time,            \* observer: clock read by the last security pass
    last_change,          \* observer: time of the last change of process()'s result
    frames,               \* observer: frames processed, counted up to hold_frames + 1
    most_common,          \* observer: most_common of the last process() call
    ended_onset,          \* observer: onset of the absence the last pass saw ended
    episode_locks,        \* observer: lock_screen calls of the current absence
    screen_locked,        \* observer: what the last lock_screen call did
    failed_step,          \* observer: the perception step that failed last, if it did
    intensity,            \* argument of the last apply_blur call, in tenths
    kernel_size,          \* apply_blur: the kernel size passed to GaussianBlur
    last_effect_time,     \* observer: clock value of the last side effect of handle
    run_gated             \* observer: the current run of equal labels began gated

vars == <<now, pc, gesture, face_absent, identity,
          gesture_buffer, last_stable_gesture, last_emit_time,
          prev_gesture, last_action_time, control_enabled, last_action,
          last_seen_time, face_present, reference_embedding,
          blur_start_time, lock_triggered, blur_strength,
          effect, calls, run_effects, last_dispatched, last_label, lock_calls,
          absent_since, pass_time, last_change, frames, most_common,
          ended_onset, episode_locks, screen_locked, failed_step,
          intensity, kernel_size, last_effect_time, run_gated>>

mainVars     == <<pc, face_absent, identity>>
trackerVars  == <<gesture_buffer, last_stable_gesture, last_emit_time>>
mapperVars   == <<prev_gesture, last_action_time, control_enabled, last_action>>
mapperObs    == <<effect, calls, run_effects, last_dispatched, last_label,
                  last_effect_time, run_gated>>
faceVars     == <<last_seen_time, face_present, reference_embedding>>
securityVars == <<blur_start_time, lock_triggered, blur_strength>>
securityObs  == <<lock_calls, absent_since, pass_time,
                  ended_onset, episode_locks, screen_locked>>
blurVars     == <<intensity, kernel_size>>
trackerObs   == <<last_change, frames, most_common>>

---------------------------------------------------------------------------
(* Program constants, in ticks of 0.1 s where they are durations.          *)

BLUR_DURATION == 15
HandTracker_hold_frames == 8
HandTracker_cooldown == 6
GestureMapper_cooldown == 8
absence_timeout == 1
LOCK_SLEEP == 20
INITIAL_BLUR == 5
MAX_KERNEL == 99

(* Bounds of the model.                                                    *)
Horizon == 24
GestureSpan == 9
CoreSpan == 16
LatchSpan == 50
LoopSpan == 3
MaxIntensity == 101

\* time.time() when the program starts: the epoch clock is far beyond every
\* duration the program compares with, and the zero timestamps of the
\* constructors (last_emit_time = 0.0, last_action_time = 0.0) lie far back.
StartTime == 2 * BLUR_DURATION
MaxTime == StartTime + Horizon

\* Amounts by which the clock may advance between two reads.
Steps == {0, 1, HandTracker_cooldown, GestureMapper_cooldown, BLUR_DURATION}

NoTime == -1
NoValue == "<unset>"
NoFace == "None"

---------------------------------------------------------------------------
(* Gesture vocabularies.                                                   *)

HandTracker_GESTURES ==
    [NO_HAND |-> "NO_HAND", OPEN_PALM |-> "OPEN_PALM", FIST |-> "FIST",
     POINT |-> "POINT", PINCH |-> "PINCH", UNKNOWN |-> "UNKNOWN"]

\* Mutant of GestureMapper_GESTURES: the mapper spells its labels as the
\* tracker does.
GestureMapper_GESTURES_Upper == HandTracker_GESTURES

GestureMapper_GESTURES ==
    [NO_HAND |-> "no_hand", OPEN_PALM |-> "open_palm", FIST |-> "fist",
     POINT |-> "point", PINCH |-> "pinch", UNKNOWN |-> "unknown"]

GestureKeys == {"NO_HAND", "OPEN_PALM", "FIST", "POINT", "PINCH", "UNKNOWN"}

TrackerLabels == {HandTracker_GESTURES[k] : k \in GestureKeys}
MapperLabels  == {GestureMapper_GESTURES[k] : k \in GestureKeys}

ActionNames == {"toggle_control", "play_pause", "next_desktop", "volume_up"}

---------------------------------------------------------------------------
(* DesktopActions and GestureMapper.                                       *)

\* Mutant of toggle_control: switches control on instead of flipping it.
toggle_control_SetsOn(enabled) == TRUE

\* DesktopActions.toggle_control: the new value of control_enabled.
toggle_control(enabled) == ~enabled

\* Mutant of action_map: POINT and PINCH exchanged.
action_map_Swapped(g) ==
    CASE g = GestureMapper_GESTURES.FIST  -> "play_pause"
      [] g = GestureMapper_GESTURES.POINT -> "volume_up"
      [] g = GestureMapper_GESTURES.PINCH -> "next_desktop"
      [] OTHER -> "none"

\* GestureMapper._execute_action: action_map.get(gesture); "none" when the
\* label has no entry.
action_map(g) ==
    CASE g = GestureMapper_GESTURES.FIST  -> "play_pause"
      [] g = GestureMapper_GESTURES.POINT -> "next_desktop"
      [] g = GestureMapper_GESTURES.PINCH -> "volume_up"
      [] OTHER -> "none"

\* Mutant of CooldownGate: the gate never closes.
CooldownGate_Open(t) == FALSE

\* Mutant of CooldownGate: the boundary now - last_action_time = cooldown gated.
CooldownGate_Inclusive(t) == t - last_action_time <= GestureMapper_cooldown

\* The cooldown gate of handle: now - last_action_time < cooldown.
CooldownGate(t) == t - last_action_time < GestureMapper_cooldown

\* The edge test of handle.
EdgeDetected(g) == g # prev_gesture

\* The side effect handle(g) makes when it reads the clock at t.
HandleEffect(g, t) ==
    IF CooldownGate(t) THEN "none"
    ELSE IF ~EdgeDetected(g) THEN "none"
    ELSE IF g = GestureMapper_GESTURES.OPEN_PALM THEN "toggle_control"
    ELSE IF control_enabled THEN action_map(g)
    ELSE "none"

\* Mutant of HandlePrev: the OPEN_PALM path returns without storing the label.
HandlePrev_ToggleForgets(g, t) ==
    IF HandleEffect(g, t) = "toggle_control" THEN prev_gesture ELSE g

\* Mutant of HandlePrev: a gated call returns without storing the label.
HandlePrev_GateForgets(g, t) == IF CooldownGate(t) THEN prev_gesture ELSE g

\* prev_gesture after handle(g): every path of handle stores the label.
HandlePrev(g, t) == g

\* Mutant of HandleStamp: only a call that makes a side effect stamps.
HandleStamp_OnDispatch(g, t) ==
    IF HandleEffect(g, t) # "none" THEN t ELSE last_action_time

\* last_action_time after handle(g): every accepted edge stamps the clock.
HandleStamp(g, t) ==
    IF ~CooldownGate(t) /\ EdgeDetected(g) THEN t ELSE last_action_time

\* GestureMapper.handle(g), reading the clock at t.
GestureMapper_handle(g, t) ==
    LET e == HandleEffect(g, t) IN
    /\ prev_gesture' = HandlePrev(g, t)
    /\ last_action_time' = HandleStamp(g, t)
    /\ control_enabled' =
           IF e = "toggle_control" THEN toggle_control(control_enabled)
           ELSE control_enabled
    /\ last_action' =
           IF e \in {"play_pause", "next_desktop", "volume_up"} THEN e
           ELSE last_action
    /\ effect' = e
    /\ calls' = IF e = "none" THEN calls ELSE [calls EXCEPT ![e] = @ + 1]
    /\ run_effects' =
           (IF g = last_label THEN run_effects ELSE 0) + (IF e = "none" THEN 0 ELSE 1)
    /\ last_dispatched' = IF e = "none" THEN last_dispatched ELSE g
    /\ last_label' = g
    /\ last_effect_time' = IF e = "none" THEN last_effect_time ELSE t
    /\ run_gated' = IF g = last_label THEN run_gated ELSE CooldownGate(t)

---------------------------------------------------------------------------
(* HandTracker: the gesture buffer and the stabilizer.                     *)

\* Mutant of BufferAppend: the deque grows without evicting.
BufferAppend_NoEvict(buf, g) == Append(buf, g)

\* HandTracker._update_buffer: append to a deque(maxlen = hold_frames).
BufferAppend(buf, g) ==
    IF Len(buf) = HandTracker_hold_frames THEN Append(Tail(buf), g)
    ELSE Append(buf, g)

\* gesture_buffer.count(g)
Count(buf, g) == Cardinality({i \in DOMAIN buf : buf[i] = g})

BufferSet(buf) == {buf[i] : i \in DOMAIN buf}

\* max(set(buffer), key = buffer.count): a label of the highest count; among
\* labels of equal count the iteration order of a set of strings picks one,
\* and that order is not fixed by the program.
MostCommon(buf) ==
    {g \in BufferSet(buf) : \A h \in BufferSet(buf) : Count(buf, g) >= Count(buf, h)}

\* Mutant of EmitAllowed: the cooldown of the stabilizer is not checked.
EmitAllowed_NoCooldown(candidate, t) == candidate # last_stable_gesture

\* The update test of _stable_gesture.
EmitAllowed(candidate, t) ==
    /\ candidate # last_stable_gesture
    /\ t - last_emit_time > HandTracker_cooldown

\* HandTracker._stable_gesture on buffer buf with the clock read at t; the
\* result is the label returned.
HandTracker_stable_gesture(buf, t, result) ==
    IF Len(buf) = 0
    THEN /\ result = last_stable_gesture
         /\ most_common' = NoValue
         /\ UNCHANGED <<last_stable_gesture, last_emit_time>>
    ELSE \E winner \in MostCommon(buf) :
           /\ most_common' = winner
           /\ IF EmitAllowed(winner, t)
              THEN /\ last_stable_gesture' = winner
                   /\ last_emit_time' = t
                   /\ result = winner
              ELSE /\ UNCHANGED <<last_stable_gesture, last_emit_time>>
                   /\ result = last_stable_gesture

\* Outcomes of the perception part of process(): an exception before the
\* buffer is touched, or a raw label (NO_HAND when no hand is found).
ProcessFails == "fail"

\* Mutant of FailureLabel: a failing frame reports that no hand is there.
FailureLabel_NoHand == HandTracker_GESTURES.NO_HAND

\* The label process() returns when it fails.
FailureLabel == HandTracker_GESTURES.UNKNOWN

\* HandTracker.process(frame) with the given outcome, the clock read at t.
HandTracker_process(outcome, t) ==
    /\ IF outcome = ProcessFails
       THEN /\ gesture' = FailureLabel
            /\ most_common' = NoValue
            /\ UNCHANGED trackerVars
       ELSE /\ gesture_buffer' = BufferAppend(gesture_buffer, outcome)
            /\ HandTracker_stable_gesture(gesture_buffer', t, gesture')
    /\ failed_step' = IF outcome = ProcessFails THEN "hand" ELSE NoValue
    /\ last_change' = IF gesture # NoValue /\ gesture' # gesture THEN t
                      ELSE last_change
    /\ frames' = IF frames > HandTracker_hold_frames THEN frames ELSE frames + 1

---------------------------------------------------------------------------
(* FacePresenceDetector and FaceRecognizer.                                *)

\* Outcomes of the detection inside FacePresenceDetector.process.
FaceOutcomes == {"fail", "face", "noface"}

\* Mutant of is_absent_too_long: absent as soon as the timeout is reached.
is_absent_too_long_Inclusive(present, seen, t) ==
    IF present THEN FALSE ELSE t - seen >= absence_timeout

\* FacePresenceDetector._is_absent_too_long with the clock read at t.
is_absent_too_long(present, seen, t) ==
    IF present THEN FALSE ELSE t - seen > absence_timeout

\* FacePresenceDetector.process(frame); result is the value returned.
FacePresenceDetector_process(outcome, t, result) ==
    CASE outcome = "fail" ->
           /\ result = FALSE
           /\ UNCHANGED <<last_seen_time, face_present>>
      [] outcome = "face" ->
           /\ last_seen_time' = t
           /\ face_present' = TRUE
           /\ result = is_absent_too_long(TRUE, t, t)
      [] outcome = "noface" ->
           /\ face_present' = FALSE
           /\ UNCHANGED last_seen_time
           /\ result = is_absent_too_long(FALSE, last_seen_time, t)

\* Outcomes of the face mesh and the distance test inside
\* FaceRecognizer.process.
RecognizerOutcomes == {"fail", "noface", "match", "mismatch"}

\* FaceRecognizer.process(frame): the value returned.
FaceRecognizer_process(outcome, reference) ==
    CASE outcome \in {"fail", "noface"} -> NoFace
      [] ~reference -> "UNREGISTERED"
      [] outcome = "mismatch" -> "UNKNOWN"
      [] OTHER -> "AUTHORIZED"

---------------------------------------------------------------------------
(* SecurityState and handle_security_warnings.                             *)

\* int(5 + min(elapsed / BLUR_DURATION, 1.0) * 45)
BlurAt(elapsed) ==
    IF elapsed >= BLUR_DURATION THEN INITIAL_BLUR + 45
    ELSE INITIAL_BLUR + (elapsed * 45) \div BLUR_DURATION

\* SecurityState.update_blur_progress: the new blur_strength.
update_blur_progress(start, strength, t) ==
    IF start = NoTime THEN strength ELSE BlurAt(t - start)

\* SecurityState.should_lock with the clock read at t.
should_lock(start, t) ==
    IF start = NoTime THEN FALSE ELSE t - start >= BLUR_DURATION

\* Mutant of SecurityState_start_blur: the timer starts without the latch.
SecurityState_start_blur_NoLatch(t) ==
    /\ blur_start_time' = t
    /\ lock_triggered' = lock_triggered
    /\ UNCHANGED blur_strength

\* SecurityState.start_blur with the clock read at t
SecurityState_start_blur(t) ==
    /\ blur_start_time' = t
    /\ lock_triggered' = TRUE
    /\ UNCHANGED blur_strength

\* Mutant of SecurityState_reset: the timer survives a reset.
SecurityState_reset_KeepsTimer ==
    /\ blur_start_time' = blur_start_time
    /\ lock_triggered' = FALSE
    /\ blur_strength' = INITIAL_BLUR

\* Mutant of SecurityState_reset: the latch flag survives a reset.
SecurityState_reset_KeepsLatch ==
    /\ blur_start_time' = NoTime
    /\ lock_triggered' = lock_triggered
    /\ blur_strength' = INITIAL_BLUR

\* SecurityState.reset
SecurityState_reset ==
    /\ blur_start_time' = NoTime
    /\ lock_triggered' = FALSE
    /\ blur_strength' = INITIAL_BLUR

\* int(x) for a number given in tenths: truncation toward zero.
PyInt(tenths) ==
    IF tenths >= 0 THEN tenths \div 10 ELSE -((-tenths) \div 10)

Max(a, b) == IF a >= b THEN a ELSE b
Min(a, b) == IF a <= b THEN a ELSE b

\* Mutant of MakeOdd: one is added instead of or-ed in.
MakeOdd_AddOne(n) == n + 1

\* n | 1 for a positive integer n
MakeOdd(n) == IF n % 2 = 0 THEN n + 1 ELSE n

\* apply_blur(frame, intensity), intensity in tenths: the kernel size
\* passed to cv2.GaussianBlur.
apply_blur(tenths) == Min(MakeOdd(Max(1, PyInt(tenths))), MAX_KERNEL)

\* What the platform's lock command can do when lock_screen runs it.
LockOutcomes == {"ok", "nonzero", "missing", "timeout", "unsupported"}

\* Outcomes that raise inside lock_screen and are caught by one of its
\* except clauses (CalledProcessError, FileNotFoundError, TimeoutExpired).
LockCaught == {"nonzero", "missing", "timeout"}

\* lock_screen(): what the caller sees of a call with the given outcome.
lock_screen(outcome) ==
    CASE outcome = "ok" -> "locked"
      [] outcome = "unsupported" -> "warned"
      [] outcome \in LockCaught -> "warned"
      [] OTHER -> "raised"

\* The branch of handle_security_warnings taken with these signals.
SecurityBranch(id, absent) ==
    IF id = "UNKNOWN" /\ ~lock_triggered THEN "unknown"
    ELSE IF absent /\ ~lock_triggered THEN "absent"
    ELSE "normal"

\* Whether the pass calls lock_screen(); ta and tb as below.
PassLocks(id, absent, ta, tb) ==
    CASE SecurityBranch(id, absent) = "unknown" -> should_lock(blur_start_time, tb)
      [] SecurityBranch(id, absent) = "absent" -> should_lock(ta, tb)
      [] OTHER -> FALSE

\* handle_security_warnings(frame, id, absent, security_state); ta is the
\* first clock read of the pass (update_blur_progress, start_blur) and tb
\* the read of should_lock.  lock_screen() sleeps LOCK_SLEEP before it
\* returns.
handle_security_warnings(id, absent, ta, tb) ==
    /\ pass_time' = ta
    /\ absent_since' =
           IF ~absent THEN NoTime
           ELSE IF absent_since # NoTime THEN absent_since
           ELSE IF ~lock_triggered THEN ta
           ELSE NoTime
    /\ ended_onset' = IF absent THEN NoTime ELSE absent_since
    /\ episode_locks' =
           (IF absent_since = NoTime THEN 0 ELSE episode_locks)
           + (IF PassLocks(id, absent, ta, tb) THEN 1 ELSE 0)
    /\ IF SecurityBranch(id, absent) = "unknown"
       THEN /\ intensity' =
                 10 * update_blur_progress(blur_start_time, blur_strength, ta)
            /\ kernel_size' = apply_blur(intensity')
       ELSE UNCHANGED blurVars
    /\ IF PassLocks(id, absent, ta, tb)
       THEN /\ \E outcome \in LockOutcomes :
                 screen_locked' = lock_screen(outcome)
            /\ lock_calls' = lock_calls + 1
            /\ now' = tb + LOCK_SLEEP
            /\ SecurityState_reset
       ELSE /\ now' = tb
            /\ UNCHANGED <<lock_calls, screen_locked>>
            /\ CASE SecurityBranch(id, absent) = "unknown" ->
                      /\ blur_strength' =
                            update_blur_progress(blur_start_time, blur_strength, ta)
                      /\ UNCHANGED <<blur_start_time, lock_triggered>>
                 [] SecurityBranch(id, absent) = "absent" ->
                      SecurityState_start_blur(ta)
                 [] OTHER -> SecurityState_reset

---------------------------------------------------------------------------
(* Initial state: the objects as their constructors leave them.            *)

InitObjects(start) ==
    /\ now = start
    /\ gesture = NoValue
    /\ face_absent = FALSE
    /\ identity = NoValue
    /\ gesture_buffer = <<>>
    /\ last_stable_gesture = HandTracker_GESTURES.NO_HAND
    /\ last_emit_time = 0
    /\ prev_gesture = GestureMapper_GESTURES.NO_HAND
    /\ last_action_time = 0
    /\ control_enabled = FALSE
    /\ last_action = NoValue
    /\ last_seen_time = start
    /\ face_present = FALSE
    /\ blur_start_time = NoTime
    /\ lock_triggered = FALSE
    /\ blur_strength = INITIAL_BLUR
    /\ effect = "none"
    /\ calls = [a \in ActionNames |-> 0]
    /\ run_effects = 0
    /\ last_dispatched = GestureMapper_GESTURES.NO_HAND
    /\ last_label = NoValue
    /\ lock_calls = 0
    /\ absent_since = NoTime
    /\ pass_time = NoTime
    /\ last_change = NoTime
    /\ frames = 0
    /\ most_common = NoValue
    /\ ended_onset = NoTime
    /\ episode_locks = 0
    /\ screen_locked = NoValue
    /\ failed_step = NoValue
    /\ intensity = 0
    /\ kernel_size = 0
    /\ last_effect_time = NoTime
    /\ run_gated = FALSE

---------------------------------------------------------------------------
(* SpecMapper: GestureMapper.handle called with any label at any time.     *)

\* Labels a caller may pass: the mapper's own vocabulary, the tracker's
\* spelling of two of them, and a value neither knows.
AnyLabels == MapperLabels \cup
             {HandTracker_GESTURES.OPEN_PALM, HandTracker_GESTURES.FIST, "wave"}

\* mapper.handle(g) with a label from labels, at any time
HandleFrom(labels) ==
    \E g \in labels, d \in Steps :
        /\ now + d <= MaxTime
        /\ now' = now + d
        /\ GestureMapper_handle(g, now + d)
        /\ UNCHANGED <<blurVars, failed_step, mainVars, gesture, trackerVars, faceVars, securityVars,
                       securityObs, trackerObs>>

HandleAny == HandleFrom(AnyLabels)

InitMapper ==
    /\ InitObjects(StartTime)
    /\ reference_embedding = FALSE
    /\ pc = "handle"

NextMapper == HandleAny

SpecMapper == InitMapper /\ [][NextMapper]_vars

---------------------------------------------------------------------------
(* SpecTracked: GestureMapper.handle called only with labels that          *)
(* HandTracker.process can return, at any time.                            *)

HandleTracked == HandleFrom(TrackerLabels)

InitTracked ==
    /\ InitObjects(StartTime)
    /\ reference_embedding = FALSE
    /\ pc = "handle"

NextTracked == HandleTracked

SpecTracked == InitTracked /\ [][NextTracked]_vars

---------------------------------------------------------------------------
(* SpecGesture: lines 175-177 of main(), the tracker feeding the mapper,   *)
(* with a caller that may switch control on before the first frame.        *)

\* Raw labels the classifier produces in this specification.
RawLabels == {HandTracker_GESTURES.NO_HAND, HandTracker_GESTURES.FIST}

\* Amounts by which the clock advances between two reads in this
\* specification: none, and the two sides of the stabilizer's cooldown.
GestureSteps == {0, HandTracker_cooldown, HandTracker_cooldown + 1}

\* gesture = hand_tracker.process(frame), the classifier's label drawn
\* from labels
ProcessFrom(labels) ==
    /\ pc = "process"
    /\ \E outcome \in labels \cup {ProcessFails}, d \in GestureSteps :
         /\ now + d <= MaxTime
         /\ now' = now + d
         /\ HandTracker_process(outcome, now + d)
    /\ pc' = "handle"
    /\ UNCHANGED <<blurVars, face_absent, identity, mapperVars, mapperObs, faceVars,
                   securityVars, securityObs>>

Process == ProcessFrom(RawLabels)

\* mapper.handle(gesture)
Handle(next) ==
    /\ pc = "handle"
    /\ \E d \in GestureSteps :
         /\ now + d <= MaxTime
         /\ now' = now + d
         /\ GestureMapper_handle(gesture, now + d)
    /\ pc' = next
    /\ UNCHANGED <<blurVars, failed_step, gesture, face_absent, identity, trackerVars, trackerObs,
                   faceVars, securityVars, securityObs>>

HandleGesture == Handle("process")

\* A caller switches control on before the first frame
\* (DesktopActions.toggle_control called directly).
EnableControl ==
    /\ pc = "process"
    /\ frames = 0
    /\ ~control_enabled
    /\ control_enabled' = toggle_control(control_enabled)
    /\ calls' = [calls EXCEPT !["toggle_control"] = @ + 1]
    /\ UNCHANGED <<blurVars, failed_step, now, mainVars, gesture, trackerVars, trackerObs,
                   prev_gesture, last_action_time, last_action,
                   effect, run_effects, last_dispatched, last_label,
                   last_effect_time, run_gated,
                   faceVars, securityVars, securityObs>>

\* The program may start at any clock value; this specification follows it
\* for GestureSpan ticks.
InitGesture ==
    /\ InitObjects(MaxTime - GestureSpan)
    /\ reference_embedding = FALSE
    /\ pc = "process"

NextGesture == Process \/ HandleGesture \/ EnableControl

SpecGesture == InitGesture /\ [][NextGesture]_vars

---------------------------------------------------------------------------
(* SpecSecurity: lines 179-201 of main(): presence, identity, the security *)
(* pass and the key handling, frame after frame.                           *)

\* Amounts by which the clock advances before a read in this specification.
SecuritySteps == {0, 1, BLUR_DURATION}

\* Amounts by which the clock advances between the two reads of one
\* security pass.
StallSteps == {0, BLUR_DURATION}

\* face_absent = face_detector.process(frame)
FaceDetect ==
    /\ pc = "face"
    /\ \E outcome \in FaceOutcomes, d \in SecuritySteps :
         /\ now + d <= MaxTime
         /\ now' = now + d
         /\ FacePresenceDetector_process(outcome, now + d, face_absent')
         /\ failed_step' = IF outcome = "fail" THEN "face" ELSE NoValue
    /\ pc' = "identity"
    /\ UNCHANGED <<blurVars, gesture, identity, reference_embedding, trackerVars,
                   trackerObs, mapperVars, mapperObs, securityVars, securityObs>>

\* identity = face_recognizer.process(frame)
Recognize ==
    /\ pc = "identity"
    /\ \E outcome \in RecognizerOutcomes :
         /\ identity' = FaceRecognizer_process(outcome, reference_embedding)
         /\ failed_step' = IF outcome = "fail" THEN "identity" ELSE NoValue
    /\ pc' = "security"
    /\ UNCHANGED <<blurVars, now, gesture, face_absent, faceVars, trackerVars, trackerObs,
                   mapperVars, mapperObs, securityVars, securityObs>>

\* handle_security_warnings(frame, identity, face_absent, security_state)
\* followed until the clock passes limit.
SecurityUntil(next, limit) ==
    /\ pc = "security"
    /\ \E d1 \in {0, 1}, d2 \in StallSteps :
         /\ now + d1 + d2 <= limit
         /\ handle_security_warnings(identity, face_absent, now + d1, now + d1 + d2)
    /\ pc' = next
    /\ UNCHANGED <<failed_step, gesture, face_absent, identity, faceVars, trackerVars,
                   trackerObs, mapperVars, mapperObs>>

Security(next) == SecurityUntil(next, MaxTime)

SecurityPass == Security("key")

\* key = cv2.waitKey(1): "r" with a face in the frame registers it; next is
\* the first step of the following frame.
RegisterKey(next) ==
    /\ pc = "key"
    /\ reference_embedding' = TRUE
    /\ pc' = next
    /\ UNCHANGED <<blurVars, failed_step, now, gesture, face_absent, identity, last_seen_time,
                   face_present, trackerVars, trackerObs, mapperVars, mapperObs,
                   securityVars, securityObs>>

KeyRegister == RegisterKey("face")

\* No key, another key, or "r" without a face: on with the next frame.
OtherKey(next) ==
    /\ pc = "key"
    /\ pc' = next
    /\ UNCHANGED <<blurVars, failed_step, now, gesture, face_absent, identity, faceVars, trackerVars,
                   trackerObs, mapperVars, mapperObs, securityVars, securityObs>>

KeyOther == OtherKey("face")

\* "q" leaves the loop.
KeyQuit ==
    /\ pc = "key"
    /\ pc' = "done"
    /\ UNCHANGED <<blurVars, failed_step, now, gesture, face_absent, identity, faceVars, trackerVars,
                   trackerObs, mapperVars, mapperObs, securityVars, securityObs>>

InitSecurity ==
    /\ InitObjects(StartTime)
    /\ reference_embedding \in BOOLEAN
    /\ pc = "face"

NextSecurity ==
    FaceDetect \/ Recognize \/ SecurityPass \/ KeyRegister \/ KeyOther \/ KeyQuit

SpecSecurity == InitSecurity /\ [][NextSecurity]_vars

---------------------------------------------------------------------------
(* SpecCore: the dispatcher and the security latch driven pass after pass  *)
(* by the signals of the perception components: a label for handle, then   *)
(* identity and presence for handle_security_warnings.                     *)

CoreLabels == {GestureMapper_GESTURES.NO_HAND, GestureMapper_GESTURES.OPEN_PALM,
               GestureMapper_GESTURES.FIST}

CoreSteps == {0, GestureMapper_cooldown}

IdentityLabels == {NoFace, "UNREGISTERED", "UNKNOWN", "AUTHORIZED"}

\* mapper.handle(gesture) with the label of this pass
CoreHandle ==
    /\ pc = "handle"
    /\ \E g \in CoreLabels, d \in CoreSteps :
         /\ now + d <= MaxTime
         /\ now' = now + d
         /\ gesture' = g
         /\ GestureMapper_handle(g, now + d)
    /\ pc' = "signals"
    /\ UNCHANGED <<blurVars, failed_step, face_absent, identity, trackerVars, trackerObs, faceVars,
                   securityVars, securityObs>>

\* the presence and identity signals of this pass
CoreSignals ==
    /\ pc = "signals"
    /\ face_absent' \in BOOLEAN
    /\ identity' \in IdentityLabels
    /\ pc' = "security"
    /\ UNCHANGED <<blurVars, failed_step, now, gesture, trackerVars, trackerObs, faceVars, mapperVars,
                   mapperObs, securityVars, securityObs>>

CoreSecurity == Security("handle")

\* The program may start at any clock value; this specification follows it
\* for CoreSpan ticks.
InitCore ==
    /\ InitObjects(MaxTime - CoreSpan)
    /\ reference_embedding = FALSE
    /\ pc = "handle"

NextCore == CoreHandle \/ CoreSignals \/ CoreSecurity

SpecCore == InitCore /\ [][NextCore]_vars

---------------------------------------------------------------------------
(* SpecLatch: handle_security_warnings alone, pass after pass, with the    *)
(* signals of each pass, followed for LatchSpan ticks: long enough for a   *)
(* pass that stalls, the sleep of lock_screen and a second such pass.      *)

LatchSecurity == SecurityUntil("signals", StartTime + LatchSpan)

InitLatch ==
    /\ InitObjects(StartTime)
    /\ reference_embedding = FALSE
    /\ pc = "signals"

NextLatch == CoreSignals \/ LatchSecurity

SpecLatch == InitLatch /\ [][NextLatch]_vars

---------------------------------------------------------------------------
(* Claims about GestureMapper.handle, checked under SpecMapper.            *)

\* A step that is a call of handle.
HandleCall == pc = "handle" /\ last_label' # NoValue

\* The label of the call before this one; the constructor's NO_HAND before
\* the first call.
PrevSeen == IF last_label = NoValue THEN GestureMapper_GESTURES.NO_HAND
            ELSE last_label

MappedLabels == {GestureMapper_GESTURES.FIST, GestureMapper_GESTURES.POINT,
                 GestureMapper_GESTURES.PINCH}

\* C4 as stated: a side effect fires iff the label differs from the
\* previously dispatched label, the cooldown has elapsed, and the label is
\* OPEN_PALM or control is enabled.
C4_DispatchIff_Original ==
    [][HandleCall =>
         ((effect' # "none") <=>
            /\ last_label' # last_dispatched
            /\ now' - last_action_time >= GestureMapper_cooldown
            /\ \/ last_label' = GestureMapper_GESTURES.OPEN_PALM
               \/ control_enabled)]_vars

\* C4 amended: a side effect fires iff the label differs from the label of
\* the previous handle call, the cooldown has elapsed, and the label is
\* OPEN_PALM, or control is enabled and the label is FIST, POINT or PINCH.
C4_DispatchIff ==
    [][HandleCall =>
         ((effect' # "none") <=>
            /\ last_label' # PrevSeen
            /\ now' - last_action_time >= GestureMapper_cooldown
            /\ \/ last_label' = GestureMapper_GESTURES.OPEN_PALM
               \/ control_enabled /\ last_label' \in MappedLabels)]_vars

\* C4 witness: an accepted edge to an unmapped label with control enabled
\* made no side effect, after an action had been dispatched.
C4_Witness ==
    /\ control_enabled
    /\ last_label = GestureMapper_GESTURES.UNKNOWN
    /\ effect = "none"
    /\ last_action_time = now
    /\ calls["play_pause"] > 0

\* C5: on every edge to OPEN_PALM with the cooldown elapsed control_enabled
\* is flipped, toggle_control is called once and no action is called.
C5_OpenPalmToggles ==
    [][(/\ HandleCall
        /\ last_label' = GestureMapper_GESTURES.OPEN_PALM
        /\ last_label' # PrevSeen
        /\ now' - last_action_time >= GestureMapper_cooldown)
       =>
       (/\ control_enabled' = ~control_enabled
        /\ calls' = [calls EXCEPT !["toggle_control"] = @ + 1]
        /\ last_action' = last_action)]_vars

\* C5 witness: a toggle has switched control off again.
C5_Witness ==
    /\ effect = "toggle_control"
    /\ ~control_enabled
    /\ calls["toggle_control"] = 2

\* C8: for a label other than OPEN_PALM an action is called only with
\* control enabled, it is play_pause for FIST, next_desktop for POINT and
\* volume_up for PINCH, and no other label calls anything.
C8_GatingAndMapping ==
    [][(HandleCall /\ last_label' # GestureMapper_GESTURES.OPEN_PALM)
       =>
       (/\ effect' # "toggle_control"
        /\ control_enabled' = control_enabled
        /\ (effect' # "none" => control_enabled)
        /\ (effect' = "play_pause" => last_label' = GestureMapper_GESTURES.FIST)
        /\ (effect' = "next_desktop" => last_label' = GestureMapper_GESTURES.POINT)
        /\ (effect' = "volume_up" => last_label' = GestureMapper_GESTURES.PINCH)
        /\ (last_label' \notin MappedLabels => effect' = "none")
        /\ calls' = IF effect' = "none" THEN calls
                    ELSE [calls EXCEPT ![effect'] = @ + 1])]_vars

\* C8 witness: with control enabled and after a next_desktop, an accepted
\* edge to a label nobody knows called nothing.
C8_Witness ==
    /\ control_enabled
    /\ last_label = "wave"
    /\ effect = "none"
    /\ last_action_time = now
    /\ last_action = "next_desktop"

\* C9: within a run of calls with the same label at most one side effect
\* fires.
C9_EdgeTriggered == run_effects <= 1

\* C9 witness: the label that fired is held past the cooldown and the call
\* made no further side effect.
C9_Witness ==
    /\ run_effects = 1
    /\ effect = "none"
    /\ last_label = GestureMapper_GESTURES.FIST
    /\ now - last_action_time >= GestureMapper_cooldown

---------------------------------------------------------------------------
(* Claims about the tracker feeding the mapper, checked under SpecGesture. *)

EightFists == [i \in 1..HandTracker_hold_frames |-> HandTracker_GESTURES.FIST]

\* C6 (Scenario A): after 8 frames that were all classified FIST, each
\* followed by handle with control enabled, the stable label is FIST and
\* play_pause has been called exactly once.
C6_ScenarioA ==
    (/\ pc = "process"
     /\ frames = HandTracker_hold_frames
     /\ gesture_buffer = EightFists
     /\ control_enabled)
    =>
    (/\ last_stable_gesture = HandTracker_GESTURES.FIST
     /\ gesture = HandTracker_GESTURES.FIST
     /\ calls["play_pause"] = 1)

\* C10: any two changes of the label returned by HandTracker.process are
\* more than one stabilizer cooldown apart.
C10_RateLimit ==
    [][(/\ pc = "process"
        /\ pc' = "handle"
        /\ gesture # NoValue
        /\ gesture' # gesture
        /\ last_change # NoTime)
       => now' - last_change > HandTracker_cooldown]_vars

---------------------------------------------------------------------------
(* Claims about the security latch, checked under SpecSecurity.            *)

MaxBlur == BlurAt(BLUR_DURATION)

\* C1: once lock_triggered is true it is never false again.
C1_LatchMonotonic == [][lock_triggered => lock_triggered']_vars

\* C2 (Scenario D): after a security pass whose clock is at least
\* BLUR_DURATION past the onset of an unbroken run of face-absent passes
\* that began with lock_triggered false, lock_screen has been called,
\* lock_triggered is true and blur_strength is 50.
C2_AbsenceLock ==
    (/\ pc = "key"
     /\ face_absent
     /\ absent_since # NoTime
     /\ pass_time - absent_since >= BLUR_DURATION)
    =>
    (/\ lock_calls > 0
     /\ lock_triggered
     /\ blur_strength = MaxBlur)

\* C3 (Scenario B): a security pass entered with identity UNKNOWN and
\* lock_triggered false calls lock_screen, sets lock_triggered and sets
\* blur_strength to its maximum, in that pass.
C3_UnknownLocks ==
    [][(/\ pc = "security"
        /\ identity = "UNKNOWN"
        /\ ~lock_triggered)
       =>
       (/\ lock_calls' = lock_calls + 1
        /\ lock_triggered'
        /\ blur_strength' = MaxBlur)]_vars

---------------------------------------------------------------------------
(* Claim about the dispatcher under a lock, checked under SpecCore.        *)

\* C7: a call of handle made while lock_triggered is true toggles nothing
\* and calls no action.
C7_SuppressedWhileLocked ==
    [][(pc = "handle" /\ lock_triggered)
       =>
       (/\ effect' = "none"
        /\ calls' = calls
        /\ control_enabled' = control_enabled)]_vars

---------------------------------------------------------------------------
(* SpecState: one SecurityState object whose operations are called in any  *)
(* order at any time.                                                      *)

\* security_state.start_blur()
StateStartBlur ==
    /\ pc = "state"
    /\ \E d \in SecuritySteps :
         /\ now + d <= MaxTime
         /\ now' = now + d
         /\ SecurityState_start_blur(now + d)
    /\ UNCHANGED <<mainVars, gesture, failed_step, blurVars, trackerVars,
                   trackerObs, mapperVars, mapperObs, faceVars, securityObs>>

\* security_state.reset()
StateReset ==
    /\ pc = "state"
    /\ SecurityState_reset
    /\ UNCHANGED <<now, mainVars, gesture, failed_step, blurVars, trackerVars,
                   trackerObs, mapperVars, mapperObs, faceVars, securityObs>>

\* security_state.update_blur_progress()
StateUpdateBlur ==
    /\ pc = "state"
    /\ \E d \in SecuritySteps :
         /\ now + d <= MaxTime
         /\ now' = now + d
         /\ blur_strength' =
                update_blur_progress(blur_start_time, blur_strength, now + d)
    /\ UNCHANGED <<blur_start_time, lock_triggered, mainVars, gesture,
                   failed_step, blurVars, trackerVars, trackerObs, mapperVars,
                   mapperObs, faceVars, securityObs>>

\* security_state.should_lock(): reads the clock and changes nothing.
StateShouldLock ==
    /\ pc = "state"
    /\ \E d \in SecuritySteps :
         /\ d > 0
         /\ now + d <= MaxTime
         /\ now' = now + d
    /\ UNCHANGED <<securityVars, mainVars, gesture, failed_step, blurVars,
                   trackerVars, trackerObs, mapperVars, mapperObs, faceVars,
                   securityObs>>

InitState ==
    /\ InitObjects(StartTime)
    /\ reference_embedding = FALSE
    /\ pc = "state"

NextState == StateStartBlur \/ StateReset \/ StateUpdateBlur \/ StateShouldLock

SpecState == InitState /\ [][NextState]_vars

---------------------------------------------------------------------------
(* SpecBlur: apply_blur called again and again, with any intensity from    *)
(* -MaxIntensity to MaxIntensity in steps of a tenth.                      *)

Intensities == (-10 * MaxIntensity) .. (10 * MaxIntensity)

\* A caller picks the intensity argument.
BlurInput ==
    /\ pc = "input"
    /\ intensity' \in Intensities
    /\ pc' = "blur"
    /\ UNCHANGED <<now, kernel_size, gesture, face_absent, identity, failed_step,
                   trackerVars, trackerObs, mapperVars, mapperObs, faceVars,
                   securityVars, securityObs>>

\* apply_blur(frame, intensity)
ApplyBlur ==
    /\ pc = "blur"
    /\ kernel_size' = apply_blur(intensity)
    /\ pc' = "input"
    /\ UNCHANGED <<now, intensity, gesture, face_absent, identity, failed_step,
                   trackerVars, trackerObs, mapperVars, mapperObs, faceVars,
                   securityVars, securityObs>>

InitBlur ==
    /\ InitObjects(StartTime)
    /\ reference_embedding = FALSE
    /\ pc = "input"

NextBlur == BlurInput \/ ApplyBlur

SpecBlur == InitBlur /\ [][NextBlur]_vars

---------------------------------------------------------------------------
(* Spec: the whole frame loop of main(), lines 169-201: the tracker, the   *)
(* dispatcher, presence, identity, the security pass and the key handling, *)
(* in this order, frame after frame.                                       *)

\* The hand in front of the camera of this specification is a fist, when
\* the tracker finds one.
LoopLabels == {HandTracker_GESTURES.FIST}

LoopProcess == ProcessFrom(LoopLabels)

\* Mutant of LoopHandle: the next frame starts right after the dispatch.
LoopHandle_NextFrame == Handle("process")

LoopHandle == Handle("face")

LoopKeyRegister == RegisterKey("process")

LoopKeyOther == OtherKey("process")

\* The program may start at any clock value; this specification follows it
\* for LoopSpan ticks.
Init ==
    /\ InitObjects(MaxTime - LoopSpan)
    /\ reference_embedding = FALSE
    /\ pc = "process"

Next ==
    \/ LoopProcess
    \/ LoopHandle
    \/ FaceDetect
    \/ Recognize
    \/ SecurityPass
    \/ LoopKeyRegister
    \/ LoopKeyOther
    \/ KeyQuit

Spec == Init /\ [][Next]_vars

---------------------------------------------------------------------------
(* Claims about the stabilizer, checked under SpecGesture.                 *)

\* The last position of label g in the buffer.
LastIndex(buf, g) ==
    CHOOSE i \in DOMAIN buf :
        buf[i] = g /\ \A j \in DOMAIN buf : buf[j] = g => j <= i

\* C11: the candidate of a push has the highest count in the buffer, and of
\* the labels sharing that count it is the one appended last.
C11_MajorityVote ==
    most_common # NoValue =>
        \A h \in BufferSet(gesture_buffer) :
            \/ Count(gesture_buffer, most_common) > Count(gesture_buffer, h)
            \/ /\ Count(gesture_buffer, most_common) = Count(gesture_buffer, h)
               /\ LastIndex(gesture_buffer, most_common) >= LastIndex(gesture_buffer, h)

\* C12: a push sets the stable label to the candidate and stamps the time
\* exactly when the candidate differs from the stable label and at least
\* cooldown has elapsed since the last emission, the boundary included;
\* otherwise label and stamp are unchanged and the old label is returned.
C12_UpdateRule ==
    [][(/\ pc = "process"
        /\ pc' = "handle"
        /\ most_common' # NoValue)
       =>
       IF /\ most_common' # last_stable_gesture
          /\ now' - last_emit_time >= HandTracker_cooldown
       THEN /\ last_stable_gesture' = most_common'
            /\ last_emit_time' = now'
            /\ gesture' = most_common'
       ELSE /\ last_stable_gesture' = last_stable_gesture
            /\ last_emit_time' = last_emit_time
            /\ gesture' = last_stable_gesture]_vars

---------------------------------------------------------------------------
(* Claims about absence episodes and the lock, checked under SpecSecurity  *)
(* in the state after each security pass (pc = "key").                     *)

\* The pass just made saw the face back, with an identity other than
\* UNKNOWN, less than BLUR_DURATION after the onset of the absence.
AbsenceCancelled ==
    /\ pc = "key"
    /\ ~face_absent
    /\ identity # "UNKNOWN"
    /\ ended_onset # NoTime
    /\ pass_time - ended_onset < BLUR_DURATION

\* C13: after the pass that sees the face present again with a non-UNKNOWN
\* identity less than 1.5 s after the absence began, the absence timer is
\* unset, lock_triggered is false, blur_strength is 5 and lock_screen was
\* not called during the episode.
C13_AbsenceCancelled ==
    AbsenceCancelled =>
        /\ blur_start_time = NoTime
        /\ ~lock_triggered
        /\ blur_strength = INITIAL_BLUR
        /\ episode_locks = 0

\* C13 witness: an absence of 0.1 s or more, shorter than 1.5 s, has just
\* been ended by a pass with the face present and identity AUTHORIZED.
C13_Witness ==
    /\ AbsenceCancelled
    /\ identity = "AUTHORIZED"
    /\ pass_time > ended_onset

\* The pass just made was an absent pass of an absence during which
\* lock_screen has not been called.
AbsenceCountdown ==
    /\ pc = "key"
    /\ face_absent
    /\ absent_since # NoTime
    /\ episode_locks = 0

\* C14: on every pass of an uninterrupted absence countdown blur_strength
\* is floor(5 + min(elapsed / 1.5, 1) * 45) for the time elapsed since the
\* onset of the absence (a non-decreasing value, 50 from 1.5 s on).
C14_BlurRamp ==
    AbsenceCountdown => blur_strength = BlurAt(pass_time - absent_since)

\* C20: while the face stays absent and the lock has not fired, the absence
\* timer holds the time of the first absent pass.
C20_OnsetKept ==
    AbsenceCountdown => blur_start_time = absent_since

\* C16: a pass that calls lock_screen sees no error from it, whatever the
\* lock command did, and ends with lock_triggered true.
C16_LockFailureSwallowed ==
    [][lock_calls' > lock_calls =>
          /\ screen_locked' \in {"locked", "warned"}
          /\ lock_triggered']_vars

---------------------------------------------------------------------------
(* Claim about the lock capability, checked under SpecLatch.               *)

\* C15: in one session lock_screen is invoked at most once.
C15_OneShotLock == lock_calls <= 1

---------------------------------------------------------------------------
(* Claims about the frame loop, checked under Spec.                        *)

\* The successions of steps of the frame loop.
PassOrder ==
    {<<"process", "handle">>, <<"handle", "face">>, <<"face", "identity">>,
     <<"identity", "security">>, <<"security", "key">>, <<"key", "process">>,
     <<"key", "done">>}

\* C19: in every pass the stabilizer is updated first, then the dispatcher
\* handles the label that update returned, then presence and identity are
\* read and the security latch is evaluated; each component's state changes
\* only in its own step, and a pass begins only when the previous has ended.
C19_PassOrdering ==
    [][/\ <<pc, pc'>> \in PassOrder
       /\ (trackerVars' # trackerVars => pc = "process")
       /\ (<<mapperVars, mapperObs>>' # <<mapperVars, mapperObs>> => pc = "handle")
       /\ (pc = "handle" => last_label' = gesture)
       /\ (<<securityVars, lock_calls>>' # <<securityVars, lock_calls>>
              => pc = "security")]_vars

\* C19 witness: the second pass has handled the label FIST and then
\* evaluated the latch with the face absent.
C19_Witness ==
    /\ pc = "key"
    /\ frames = 2
    /\ last_label = HandTracker_GESTURES.FIST
    /\ face_absent
    /\ absent_since = pass_time

\* C17: a perception step that fails hands on the safe default: the gesture
\* signal is the no-hand label, the presence signal says the face is absent,
\* and the identity signal keeps the value of the previous frame.
C17_FailSoftDefaults ==
    [][/\ (pc = "process" /\ failed_step' = "hand"
              => gesture' = HandTracker_GESTURES.NO_HAND)
       /\ (pc = "face" /\ failed_step' = "face" => face_absent')
       /\ (pc = "identity" /\ failed_step' = "identity"
              => identity' = identity)]_vars

---------------------------------------------------------------------------
(* Claim about apply_blur, checked under SpecBlur.                         *)

\* C18: whatever the intensity (zero, negative, even, fractional, above
\* 99), the kernel size apply_blur passes on is an odd integer from 1 to 99.
C18_KernelOddInRange ==
    [][pc = "blur" =>
          /\ kernel_size' % 2 = 1
          /\ kernel_size' >= 1
          /\ kernel_size' <= 99]_vars

\* C18 witness: apply_blur has been called with the even intensity 100.0,
\* above the range, and passed 99.
C18_Witness ==
    /\ pc = "input"
    /\ intensity = 1000
    /\ kernel_size = 99

---------------------------------------------------------------------------
(* Further claims about GestureMapper.handle, checked under SpecMapper.    *)

\* C21: two consecutive side effects of handle are never less than
\* cooldown apart.
C21_DispatcherSpacing ==
    [][(HandleCall /\ effect' # "none" /\ last_effect_time # NoTime)
          => now' - last_effect_time >= GestureMapper_cooldown]_vars

\* C21 witness: a second side effect has been made exactly cooldown after
\* the one before it.
C21_Witness ==
    /\ effect # "none"
    /\ calls["toggle_control"] + calls["play_pause"]
         + calls["next_desktop"] + calls["volume_up"] >= 2
    /\ last_effect_time = now
    /\ now = StartTime + GestureMapper_cooldown

\* C25: every call of handle stores its label as the previous label, a
\* gated call included; a run of equal labels whose first call was gated
\* makes no side effect, however long it lasts.
C25_GatedEdgeConsumed ==
    /\ (last_label # NoValue => prev_gesture = last_label)
    /\ (run_gated => run_effects = 0 /\ effect = "none")

\* C25 witness: the label fist, mapped and with control enabled, arrived
\* inside the cooldown and is still held long after the cooldown has run
\* out, with no side effect.
C25_Witness ==
    /\ run_gated
    /\ control_enabled
    /\ last_label = GestureMapper_GESTURES.FIST
    /\ now - last_action_time >= 2 * GestureMapper_cooldown

\* C26: a call that sees a label change with the cooldown elapsed stamps
\* last_action_time, side effect or not, and a call within cooldown of the
\* stamp is gated: no side effect and no new stamp.
C26_RearmedByEveryEdge ==
    [][HandleCall =>
          /\ ((/\ now' - last_action_time >= GestureMapper_cooldown
               /\ last_label' # prev_gesture)
                 => last_action_time' = now')
          /\ (now' - last_action_time < GestureMapper_cooldown
                 => effect' = "none" /\ last_action_time' = last_action_time)]_vars

\* C26 witness: with control disabled the edge to fist was accepted and
\* made no side effect, and the edge to open_palm that followed within the
\* cooldown was gated.
C26_Witness ==
    /\ ~control_enabled
    /\ calls["toggle_control"] = 0
    /\ last_label = GestureMapper_GESTURES.OPEN_PALM
    /\ effect = "none"
    /\ last_action_time > 0
    /\ now > last_action_time
    /\ now - last_action_time < GestureMapper_cooldown

---------------------------------------------------------------------------
(* Claim about FacePresenceDetector.process, checked under SpecSecurity.   *)

\* C22: process returns false on every frame with a detected face, and
\* returns true only when no face is detected on the frame and more than
\* absence_timeout has passed since the last detection (or construction).
C22_AbsenceSignal ==
    [][pc = "face" =>
          /\ ((failed_step' # "face" /\ face_present') => ~face_absent')
          /\ (face_absent' =>
                 (/\ failed_step' # "face"
                  /\ ~face_present'
                  /\ now' - last_seen_time > absence_timeout))]_vars

\* C22 witness: a face was detected after construction, and a later frame
\* without a face, more than absence_timeout after it, returned true.
C22_Witness ==
    /\ pc = "identity"
    /\ face_absent
    /\ ~face_present
    /\ last_seen_time > StartTime
    /\ now - last_seen_time > absence_timeout

---------------------------------------------------------------------------
(* Claim about SecurityState, checked under SpecState.                     *)

\* C23: whatever operations of SecurityState have been called, the latch
\* flag is true exactly when the timer is set.
C23_TimerLatchCoupling == lock_triggered <=> blur_start_time # NoTime

\* C23 witness: the timer was started and, some time later, the blur was
\* updated with the timer set and the latch true.
C23_Witness ==
    /\ pc = "state"
    /\ lock_triggered
    /\ blur_start_time # NoTime
    /\ now > blur_start_time
    /\ blur_strength > INITIAL_BLUR

---------------------------------------------------------------------------
(* Claim about the blur of the frame loop, checked under SpecSecurity.     *)

---------------------------------------------------------------------------
(* Claim about the tracker's labels in the dispatcher, checked under       *)
(* SpecTracked.                                                            *)

---------------------------------------------------------------------------
(* Claim about a failing frame of the tracker, checked under SpecGesture.  *)

\* C28: a frame on which process fails returns UNKNOWN and leaves the
\* buffer, the stable label and the emission time as they were.
C28_FailureBypassesStabilizer ==
    [][(pc = "process" /\ failed_step' = "hand") =>
          /\ gesture' = "UNKNOWN"
          /\ gesture_buffer' = gesture_buffer
          /\ last_stable_gesture' = last_stable_gesture
          /\ last_emit_time' = last_emit_time]_vars

\* C28 witness: a frame failed after the stabilizer had emitted FIST from
\* a buffer of several frames, which it still holds.
C28_Witness ==
    /\ pc = "handle"
    /\ failed_step = "hand"
    /\ gesture = "UNKNOWN"
    /\ Len(gesture_buffer) >= 2
    /\ last_stable_gesture = "FIST"
    /\ last_emit_time > 0

====
